---- MODULE Spec2Model ----
(***************************************************************************)
(* A model of eip712_structs: typed structured-data hashing (EIP-712).     *)
(*                                                                         *)
(* Python values are tagged records, Python str is a sequence of           *)
(* one-character strings, bytes is a sequence of byte items.  Record       *)
(* classes live in the registry `classes` (a class is identified by its    *)
(* index), record instances live in the heap `objs` (an instance is        *)
(* identified by its index).                                               *)
(***************************************************************************)
EXTENDS Integers, Sequences, FiniteSets, TLC

VARIABLES classes, objs, default_domain, ret

vars == <<classes, objs, default_domain, ret>>

(***************************************************************************)
(* Bounds of the model.                                                    *)
(***************************************************************************)
\* the heap holds at most MaxObjs record instances
MaxObjs == 8
\* the application constructs at most MaxMade instances after start-up
MaxMade == 1

(***************************************************************************)
(* Characters and strings.                                                 *)
(***************************************************************************)
\* the printable ASCII characters, code points 32..126, in code-point order (the
\* quote, backslash and backquote characters are written by name)
AsciiTable ==
  <<" ", "!", "dquote", "#", "$", "%", "&", "'", "(", ")", "*", "+", ",", "-", ".", "/",
    "0", "1", "2", "3", "4", "5", "6", "7", "8", "9", ":", ";", "<", "=", ">", "?",
    "@", "A", "B", "C", "D", "E", "F", "G", "H", "I", "J", "K", "L", "M", "N", "O",
    "P", "Q", "R", "S", "T", "U", "V", "W", "X", "Y", "Z", "[", "bslash", "]", "^", "_",
    "bquote", "a", "b", "c", "d", "e", "f", "g", "h", "i", "j", "k", "l", "m", "n", "o",
    "p", "q", "r", "s", "t", "u", "v", "w", "x", "y", "z", "{", "|", "}", "~">>

AsciiOrd ==
  [c \in {AsciiTable[i] : i \in 1..Len(AsciiTable)} |->
     31 + (CHOOSE i \in 1..Len(AsciiTable) : AsciiTable[i] = c)]

\* ord(c): the code point of a character
Ord(c) == AsciiOrd[c]

IsLower(c) == Ord(c) >= 97 /\ Ord(c) <= 122
IsUpper(c) == Ord(c) >= 65 /\ Ord(c) <= 90
IsDigit(c) == Ord(c) >= 48 /\ Ord(c) <= 57
\* the class [a-zA-Z0-9_] of the reference regex
IsWord(c) == IsLower(c) \/ IsUpper(c) \/ IsDigit(c) \/ c = "_"

\* Python's str < str: lexicographic by code point
StrLess(a, b) ==
  \E i \in 1..(Len(a) + 1) :
    /\ \A j \in 1..(i - 1) : j <= Len(b) /\ a[j] = b[j]
    /\ i <= Len(b)
    /\ (i > Len(a) \/ Ord(a[i]) < Ord(b[i]))

Digits == <<"0", "1", "2", "3", "4", "5", "6", "7", "8", "9">>

RECURSIVE IntToStr(_)
\* str(n) for n >= 0
IntToStr(n) ==
  IF n < 10 THEN <<Digits[n + 1]>>
  ELSE IntToStr(n \div 10) \o <<Digits[(n % 10) + 1]>>

RECURSIVE StrToInt(_)
\* int(s) for a string of decimal digits
StrToInt(s) ==
  IF s = <<>> THEN 0
  ELSE 10 * StrToInt(SubSeq(s, 1, Len(s) - 1)) + (Ord(s[Len(s)]) - 48)

\* whether character c is of the class a regex names: [a-z], \d or [a-zA-Z0-9_]
InClass(c, class) ==
  CASE class = "lower" -> IsLower(c)
    [] class = "digit" -> IsDigit(c)
    [] class = "word" -> IsWord(c)

\* the longest prefix of s made of characters of the class (a greedy + or *)
RunLen(s, class) ==
  CHOOSE n \in 0..Len(s) :
    /\ \A j \in 1..n : InClass(s[j], class)
    /\ (n = Len(s) \/ ~InClass(s[n + 1], class))

Drop(s, n) == SubSeq(s, n + 1, Len(s))
Take(s, n) == SubSeq(s, 1, n)

(***************************************************************************)
(* Bytes and the hash primitive.                                           *)
(***************************************************************************)
\* one byte of a bytes object
B(n) == [h |-> 0, b |-> n, pre |-> <<>>]

RECURSIVE Zeros(_)
Zeros(n) == IF n <= 0 THEN <<>> ELSE <<B(0)>> \o Zeros(n - 1)

\* keccak-256: an injective, opaque 32-byte digest; its first byte carries the
\* preimage, the other 31 are place holders
DigestTail == [i \in 1..31 |-> [h |-> 2, b |-> i, pre |-> <<>>]]

keccak(x) == <<[h |-> 1, b |-> 0, pre |-> x]>> \o DigestTail

\* text.encode("utf-8") of an ASCII string
Utf8(s) == [i \in 1..Len(s) |-> B(Ord(s[i]))]

HexDigits == <<"0", "1", "2", "3", "4", "5", "6", "7", "8", "9", "a", "b", "c", "d", "e", "f">>

RECURSIVE to_hex_unpadded(_)
\* a rendering that drops the leading zero of a byte is not to_hex
to_hex_unpadded(bs) ==
  IF bs = <<>> THEN <<"0", "x">>
  ELSE to_hex_unpadded(SubSeq(bs, 1, Len(bs) - 1))
         \o (IF bs[Len(bs)].b < 16 THEN <<>> ELSE <<HexDigits[(bs[Len(bs)].b \div 16) + 1]>>)
         \o <<HexDigits[(bs[Len(bs)].b % 16) + 1]>>

\* to_hex(bytes): "0x" and two lowercase hex digits per byte
to_hex(bs) ==
  <<"0", "x">> \o
  [i \in 1..(2 * Len(bs)) |->
     IF i % 2 = 1 THEN HexDigits[(bs[(i + 1) \div 2].b \div 16) + 1]
     ELSE HexDigits[(bs[i \div 2].b % 16) + 1]]

IsHexDigit(c) == IsDigit(c) \/ (Ord(c) >= 97 /\ Ord(c) <= 102) \/ (Ord(c) >= 65 /\ Ord(c) <= 70)

HexVal(c) ==
  IF IsDigit(c) THEN Ord(c) - 48
  ELSE IF IsLower(c) THEN Ord(c) - 87 ELSE Ord(c) - 55

\* remove_0x_prefix
Remove0x(s) ==
  IF Len(s) >= 2 /\ s[1] = "0" /\ (s[2] = "x" \/ s[2] = "X") THEN Drop(s, 2) ELSE s

\* to_bytes(hexstr=s): strip the prefix, left-pad an odd number of digits, decode
HexToBytes(s) ==
  LET d == Remove0x(s)
      p == IF Len(d) % 2 = 1 THEN <<"0">> \o d ELSE d
  IN  IF \E i \in 1..Len(p) : ~IsHexDigit(p[i])
      THEN [e |-> "ValueError", v |-> <<>>]
      ELSE [e |-> "",
            v |-> [i \in 1..(Len(p) \div 2) |->
                     B(16 * HexVal(p[2 * i - 1]) + HexVal(p[2 * i]))]]

RECURSIVE BigEndianToInt(_)
\* to_int(bytes): the big-endian integer value
BigEndianToInt(bs) ==
  IF bs = <<>> THEN 0
  ELSE 256 * BigEndianToInt(Take(bs, Len(bs) - 1)) + bs[Len(bs)].b

RECURSIVE HexDigitsToInt(_)
HexDigitsToInt(d) ==
  IF d = <<>> THEN 0
  ELSE 16 * HexDigitsToInt(Take(d, Len(d) - 1)) + HexVal(d[Len(d)])

\* to_int(hexstr=s) == int(s, 16)
HexStrToInt(s) ==
  LET d == Remove0x(s)
  IN  IF d = <<>> \/ \E i \in 1..Len(d) : ~IsHexDigit(d[i])
      THEN [e |-> "ValueError", v |-> 0]
      ELSE [e |-> "", v |-> HexDigitsToInt(d)]

(***************************************************************************)
(* Member types.  A member type is an EIP712Type instance (a primitive or  *)
(* an Array) or a record class used directly as a field type.              *)
(***************************************************************************)
MkType(k, n, m, c) == [k |-> k, n |-> n, m |-> m, c |-> c]

Address == MkType("address", 0, <<>>, 0)
Boolean == MkType("bool", 0, <<>>, 0)
String == MkType("string", 0, <<>>, 0)
\* Bytes(length), Int(length) (here SInt) and Uint(length) after a successful constructor
Bytes(n) == MkType("bytes", n, <<>>, 0)
SInt(n) == MkType("int", n, <<>>, 0)
Uint(n) == MkType("uint", n, <<>>, 0)
\* Array(member_type, fixed_length)
Array(t, n) == MkType("array", n, <<t>>, 0)
\* the record class with index c, used as a field type
StructT(c) == MkType("struct", 0, <<>>, c)
\* a class attribute that holds None (a reference not yet resolved)
NoneAttr == MkType("none", 0, <<>>, 0)
\* a class attribute that is no member type (type_name, __module__, ...)
OtherAttr == MkType("attr", 0, <<>>, 0)

IsStructT(t) == t.k = "struct"

\* the constructors of Bytes, Int and Uint: "" or the error they raise
BytesInitErr(n) == IF n >= 0 /\ n <= 32 THEN "" ELSE "ValueError"
IntInitErr(n) == IF ~(8 <= n /\ n <= 256) \/ n % 8 # 0 THEN "ValueError" ELSE ""

RECURSIVE TypeName(_, _)
\* the type_name attribute of a member type
TypeName(cl, t) ==
  CASE t.k = "address" -> <<"a", "d", "d", "r", "e", "s", "s">>
    [] t.k = "bool" -> <<"b", "o", "o", "l">>
    [] t.k = "string" -> <<"s", "t", "r", "i", "n", "g">>
    [] t.k = "bytes" ->
         <<"b", "y", "t", "e", "s">> \o (IF t.n = 0 THEN <<>> ELSE IntToStr(t.n))
    [] t.k = "int" -> <<"i", "n", "t">> \o IntToStr(t.n)
    [] t.k = "uint" -> <<"u", "i", "n", "t">> \o IntToStr(t.n)
    [] t.k = "array" ->
         TypeName(cl, t.m[1]) \o <<"[">>
           \o (IF t.n = 0 THEN <<>> ELSE IntToStr(t.n)) \o <<"]">>
    [] t.k = "struct" -> cl[t.c].name

(***************************************************************************)
(* Record classes.  A class is its name and its attribute dictionary, an   *)
(* insertion-ordered sequence of (name, type) entries.                     *)
(***************************************************************************)
Attr(name, typ) == [name |-> name, typ |-> typ]

AttrIndex(dict, name) ==
  IF \E i \in 1..Len(dict) : dict[i].name = name
  THEN CHOOSE i \in 1..Len(dict) : dict[i].name = name
  ELSE 0

\* a dictionary that moved a re-assigned key to the end would lose the order
SetAttrMovingLast(dict, name, typ) ==
  Append(SelectSeq(dict, LAMBDA a : a.name # name), Attr(name, typ))

\* setattr(cls, name, typ) on the attribute dictionary: an existing key keeps its
\* position, a new key goes last
SetAttr(dict, name, typ) ==
  LET i == AttrIndex(dict, name)
  IN  IF i = 0 THEN Append(dict, Attr(name, typ))
      ELSE [dict EXCEPT ![i] = Attr(name, typ)]

RECURSIVE ClassBody(_, _)
\* the attribute dictionary after executing the assignments of a class body in order
ClassBody(dict, stmts) ==
  IF stmts = <<>> THEN dict
  ELSE ClassBody(SetAttr(dict, stmts[1].name, stmts[1].typ), Tail(stmts))

TypeNameKey == <<"t", "y", "p", "e", "_", "n", "a", "m", "e">>

\* class name(EIP712Struct): <stmts>; __init_subclass__ then sets type_name
MkClass(name, stmts) ==
  [name |-> name, dict |-> SetAttr(ClassBody(<<>>, stmts), TypeNameKey, OtherAttr)]

\* type(name, (EIP712Struct,), {}): type_name is set before any member
NewClass(name) == [name |-> name, dict |-> <<Attr(TypeNameKey, OtherAttr)>>]

IsMemberType(t) == t.k \notin {"none", "attr"}

\* cls.get_members(): the entries of cls.__dict__ that are member types, in order
get_members(cl, c) == SelectSeq(cl[c].dict, LAMBDA a : IsMemberType(a.typ))

RECURSIVE Join(_, _)
\* sep.join(parts)
Join(parts, sep) ==
  IF parts = <<>> THEN <<>>
  ELSE IF Len(parts) = 1 THEN parts[1]
  ELSE parts[1] \o sep \o Join(Tail(parts), sep)

\* the class's own signature Name(type1 name1,type2 name2,...)
StructSig(cl, c) ==
  LET ms == get_members(cl, c)
      member_sigs == [i \in 1..Len(ms) |-> TypeName(cl, ms[i].typ) \o <<" ">> \o ms[i].name]
  IN  cl[c].name \o <<"(">> \o Join(member_sigs, <<",">>) \o <<")">>

\* an entry of a reference list: a class or (in to_message) an instance
ClsRef(c) == [kind |-> "cls", id |-> c]
ObjRef(o) == [kind |-> "obj", id |-> o]

\* the record classes a class names in its fields: the directly typed ones, then the
\* member types of its arrays that are record classes
DirectRefs(cl, c) ==
  LET ms == get_members(cl, c)
      direct == SelectSeq(ms, LAMBDA a : IsStructT(a.typ))
      arrays == SelectSeq(ms, LAMBDA a : a.typ.k = "array" /\ IsStructT(a.typ.m[1]))
  IN  [i \in 1..Len(direct) |-> direct[i].typ.c]
        \o [i \in 1..Len(arrays) |-> arrays[i].typ.m[1].c]

\* struct in struct_lst: a class equals only itself, and never an instance
InRefList(lst, c) == \E i \in 1..Len(lst) : lst[i] = ClsRef(c)

RECURSIVE GatherFrom(_, _, _)
RECURSIVE gather_reference_structs(_, _, _)
\* the loop over `structs` from position 1 of refs, threading the list
GatherFrom(cl, refs, lst) ==
  IF refs = <<>> THEN lst
  ELSE IF InRefList(lst, refs[1]) THEN GatherFrom(cl, Tail(refs), lst)
  ELSE GatherFrom(cl, Tail(refs),
                  gather_reference_structs(cl, refs[1], Append(lst, ClsRef(refs[1]))))

\* cls.gather_reference_structs(struct_lst): the list after the call
gather_reference_structs(cl, c, lst) == GatherFrom(cl, DirectRefs(cl, c), lst)

RECURSIVE SortedInsert(_, _, _)
\* insert class c into a list sorted by type_name, after every entry not greater
SortedInsert(cl, sorted, c) ==
  IF sorted = <<>> THEN <<c>>
  ELSE IF StrLess(cl[c].name, cl[sorted[1]].name) THEN <<c>> \o sorted
  ELSE <<sorted[1]>> \o SortedInsert(cl, Tail(sorted), c)

RECURSIVE SortByName(_, _)
\* sorted(lst, key=lambda s: s.type_name): stable, ascending
SortByName(cl, lst) ==
  IF lst = <<>> THEN <<>>
  ELSE SortedInsert(cl, SortByName(cl, Take(lst, Len(lst) - 1)), lst[Len(lst)])

\* the reference classes in the order they were gathered, without the sort
ResolvedRefsUnsorted(cl, c) ==
  LET reference_structs == gather_reference_structs(cl, c, <<>>)
      ids == [i \in 1..Len(reference_structs) |-> reference_structs[i].id]
  IN  SelectSeq(ids, LAMBDA s : s # c)

\* the reference classes encode_type appends, in the order it appends them
ResolvedRefs(cl, c) ==
  LET reference_structs == gather_reference_structs(cl, c, <<>>)
      ids == [i \in 1..Len(reference_structs) |-> reference_structs[i].id]
  IN  SortByName(cl, SelectSeq(ids, LAMBDA s : s # c))

RECURSIVE ConcatSigs(_, _)
ConcatSigs(cl, cs) ==
  IF cs = <<>> THEN <<>> ELSE StructSig(cl, cs[1]) \o ConcatSigs(cl, Tail(cs))

\* cls.encode_type(resolve)
encode_type(cl, c, resolve) ==
  IF resolve THEN StructSig(cl, c) \o ConcatSigs(cl, ResolvedRefs(cl, c))
  ELSE StructSig(cl, c)

\* cls.type_hash()
type_hash(cl, c) == keccak(Utf8(encode_type(cl, c, TRUE)))

(***************************************************************************)
(* Python values.                                                          *)
(***************************************************************************)
NoneV == [t |-> "none", v |-> 0]
BoolV(b) == [t |-> "bool", v |-> b]
IntV(n) == [t |-> "int", v |-> n]
StrV(s) == [t |-> "str", v |-> s]
BytesV(bs) == [t |-> "bytes", v |-> bs]
ListV(xs) == [t |-> "list", v |-> xs]
\* a dict: an insertion-ordered sequence of items
DictV(items) == [t |-> "dict", v |-> items]
\* a reference to the record instance objs[o]
ObjV(o) == [t |-> "obj", v |-> o]

Item(k, v) == [k |-> k, v |-> v]

ItemIndex(items, k) ==
  IF \E i \in 1..Len(items) : items[i].k = k
  THEN CHOOSE i \in 1..Len(items) : items[i].k = k
  ELSE 0

\* d.get(k)
DictGet(items, k) ==
  LET i == ItemIndex(items, k) IN IF i = 0 THEN NoneV ELSE items[i].v

\* d[k] = v
DictSet(items, k, v) ==
  LET i == ItemIndex(items, k)
  IN  IF i = 0 THEN Append(items, Item(k, v)) ELSE [items EXCEPT ![i] = Item(k, v)]

\* the result of a call: e = "" and the value, or the exception raised
Ok(v) == [e |-> "", v |-> v]

\* the element of a one-element set: The({F(x) : x \in {e}}) is F applied to the
\* value of e, computed once (a local variable of the code)
The(S) == CHOOSE x \in S : TRUE
Err(e) == [e |-> e, v |-> <<>>]

\* Bytes.__init__(length)
BytesInit(length) ==
  IF BytesInitErr(length) # "" THEN Err(BytesInitErr(length)) ELSE Ok(Bytes(length))

\* a constructor that takes any bit width
IntInitAnyWidth(length) == Ok(SInt(length))

\* Int.__init__(length)
IntInit(length) ==
  IF IntInitErr(length) # "" THEN Err(IntInitErr(length)) ELSE Ok(SInt(length))

\* Uint.__init__(length)
UintInit(length) ==
  IF IntInitErr(length) # "" THEN Err(IntInitErr(length)) ELSE Ok(Uint(length))

(***************************************************************************)
(* The value encoders.                                                     *)
(***************************************************************************)
RECURSIVE Pow2(_)
Pow2(k) == IF k = 0 THEN 1 ELSE 2 * Pow2(k - 1)

\* whether integer v (below 2^31 in size) fits `bits` bits
FitsBits(v, bits, signed) ==
  IF signed
  THEN bits >= 32 \/ (0 - Pow2(bits - 1) <= v /\ v < Pow2(bits - 1))
  ELSE v >= 0 /\ (bits >= 31 \/ v < Pow2(bits))

\* the byte of weight 256^k in the two's complement of v
ByteAt(v, k) ==
  IF k >= 4 THEN (IF v < 0 THEN 255 ELSE 0)
  ELSE (v \div Pow2(8 * k)) % 256

\* a conversion that fills the high bytes with zero whatever the sign
int_to_bytes_zero_filled(v, length, signed) ==
  IF ~FitsBits(v, 8 * length, signed) THEN Err("OverflowError")
  ELSE Ok([i \in 1..length |-> B(IF length - i >= 4 THEN 0 ELSE ByteAt(v, length - i))])

\* v.to_bytes(length, byteorder="big", signed=signed)
int_to_bytes(v, length, signed) ==
  IF ~FitsBits(v, 8 * length, signed) THEN Err("OverflowError")
  ELSE Ok([i \in 1..length |-> B(ByteAt(v, length - i))])

\* the integer a value is for int.to_bytes: bool is a subclass of int
AsInt(value) == IF value.t = "bool" THEN (IF value.v THEN 1 ELSE 0) ELSE value.v

\* Int._encode_value and Uint._encode_value: validate at the declared width, then
\* encode into 32 bytes
IntEncode(bits, signed, value) ==
  IF value.t \notin {"int", "bool"} THEN Err("AttributeError")
  ELSE IF int_to_bytes(AsInt(value), bits \div 8, signed).e # ""
       THEN int_to_bytes(AsInt(value), bits \div 8, signed)
       ELSE int_to_bytes(AsInt(value), 32, signed)

\* Address._encode_value: bytes and str become a number, then Uint(160) encodes it
AddressEncode(value) ==
  LET v == CASE value.t = "bytes" -> Ok(IntV(BigEndianToInt(value.v)))
             [] value.t = "str" ->
                  IF HexStrToInt(value.v).e # "" THEN Err(HexStrToInt(value.v).e)
                  ELSE Ok(IntV(HexStrToInt(value.v).v))
             [] OTHER -> Ok(value)
  IN  IF v.e # "" THEN v ELSE IntEncode(160, FALSE, v.v)

\* Boolean._encode_value
BooleanEncode(value) ==
  IF value.t = "bool" /\ value.v = FALSE THEN IntEncode(256, FALSE, IntV(0))
  ELSE IF value.t = "bool" /\ value.v = TRUE THEN IntEncode(256, FALSE, IntV(1))
  ELSE Err("ValueError")

\* Bytes._encode_value (a Bytes member holds None, bytes or str in this model)
BytesEncode(length, value) ==
  LET conv == IF value.t = "str" THEN HexToBytes(value.v) ELSE Ok(value.v)
  IN  IF conv.e # "" THEN conv
      ELSE IF value.t \notin {"str", "bytes"} THEN Err("TypeError")
      ELSE IF length = 0 THEN Ok(keccak(conv.v))
      ELSE IF Len(conv.v) > length THEN Err("ValueError")
      ELSE Ok(conv.v \o Zeros(32 - Len(conv.v)))

\* String._encode_value (a String member holds None or str in this model)
StringEncode(value) ==
  IF value.t = "str" THEN Ok(keccak(Utf8(value.v))) ELSE Err("TypeError")

\* the none_val of an EIP712Type instance
none_val(t) ==
  CASE t.k \in {"address", "int", "uint"} -> IntV(0)
    [] t.k = "bool" -> BoolV(FALSE)
    [] t.k = "bytes" -> BytesV(<<>>)
    [] t.k = "string" -> StrV(<<>>)
    [] t.k = "array" -> ListV(<<>>)

RECURSIVE JoinResults(_)
\* b"".join(parts), where producing a part may raise: the first error wins
JoinResults(rs) ==
  IF rs = <<>> THEN Ok(<<>>)
  ELSE IF rs[1].e # "" THEN rs[1]
  ELSE LET rest == JoinResults(Tail(rs))
       IN  IF rest.e # "" THEN rest ELSE Ok(rs[1].v \o rest.v)

RECURSIVE encode_value(_, _, _, _)
RECURSIVE ArrayElemEncode(_, _, _, _)
RECURSIVE StructEncodeValue(_, _, _)
RECURSIVE hash_struct(_, _, _)

\* what Array._encode_value gets for one element: encoder.encode_value(v).  With a
\* record class as encoder the call is the plain function with self = v
ArrayElemEncode(cl, ob, member, v) ==
  IF IsStructT(member)
  THEN (IF v.t = "obj" THEN StructEncodeValue(cl, ob, v.v) ELSE Err("AttributeError"))
  ELSE encode_value(cl, ob, member, v)

\* Array._encode_value
ArrayEncode(cl, ob, t, value) ==
  IF value.t # "list" THEN Err("TypeError")
  ELSE LET parts == JoinResults([i \in 1..Len(value.v) |->
                                   ArrayElemEncode(cl, ob, t.m[1], value.v[i])])
       IN  IF parts.e # "" THEN parts ELSE Ok(keccak(parts.v))

\* EIP712Type.encode_value: substitute none_val for None, then _encode_value
encode_value(cl, ob, t, value) ==
  LET x == IF value.t = "none" THEN none_val(t) ELSE value
  IN  CASE t.k = "address" -> AddressEncode(x)
        [] t.k = "bool" -> BooleanEncode(x)
        [] t.k = "bytes" -> BytesEncode(t.n, x)
        [] t.k = "int" -> IntEncode(t.n, TRUE, x)
        [] t.k = "uint" -> IntEncode(t.n, FALSE, x)
        [] t.k = "string" -> StringEncode(x)
        [] t.k = "array" -> ArrayEncode(cl, ob, t, x)

\* one member's 32 bytes in EIP712Struct.encode_value
MemberEncode(cl, ob, o, a) ==
  IF IsStructT(a.typ)
  THEN LET sub_struct == DictGet(ob[o].values, a.name)
       IN  IF sub_struct.t = "obj" THEN hash_struct(cl, ob, sub_struct.v)
           ELSE Err("AttributeError")
  ELSE IF ItemIndex(ob[o].values, a.name) = 0 THEN Err("KeyError")
  ELSE encode_value(cl, ob, a.typ, DictGet(ob[o].values, a.name))

\* EIP712Struct.encode_value of the instance objs[o]
StructEncodeValue(cl, ob, o) ==
  LET ms == get_members(cl, ob[o].cls)
  IN  JoinResults([i \in 1..Len(ms) |-> MemberEncode(cl, ob, o, ms[i])])

\* EIP712Struct.hash_struct of the instance objs[o]
hash_struct(cl, ob, o) ==
  LET enc == StructEncodeValue(cl, ob, o)
  IN  IF enc.e # "" THEN enc ELSE Ok(keccak(type_hash(cl, ob[o].cls) \o enc.v))

(***************************************************************************)
(* Record instances.  objs[o] is [cls, values]: the class index and the    *)
(* value mapping, an insertion-ordered dict.                               *)
(***************************************************************************)
RECURSIVE InitFields(_, _, _, _, _)
RECURSIVE Construct(_, _, _, _)

\* the loop of EIP712Struct.__init__ over the members ms, threading the heap
InitFields(cl, ob, ms, kwargs, acc) ==
  IF ms = <<>> THEN [e |-> "", ob |-> ob, values |-> acc]
  ELSE LET name == ms[1].name
           kind == ms[1].typ
           value == DictGet(kwargs, name)
       IN  IF value.t # "dict"
           THEN InitFields(cl, ob, Tail(ms), kwargs, DictSet(acc, name, value))
           ELSE IF ~IsStructT(kind)
           THEN [e |-> "TypeError", ob |-> ob, values |-> acc]
           ELSE The({IF sub.e # "" THEN [e |-> sub.e, ob |-> ob, values |-> acc]
                     ELSE InitFields(cl, sub.ob, Tail(ms), kwargs,
                                     DictSet(acc, name, ObjV(sub.id))) :
                       sub \in {Construct(cl, ob, kind.c, value.v)}})

\* cls(**kwargs): the heap with the new instance (and the nested instances built
\* from dict values) appended, and the new instance's index
Construct(cl, ob, c, kwargs) ==
  The({IF r.e # "" THEN [e |-> r.e, ob |-> ob, id |-> 0]
       ELSE [e |-> "", ob |-> Append(r.ob, [cls |-> c, values |-> r.values]),
             id |-> Len(r.ob) + 1] :
         r \in {InitFields(cl, ob, get_members(cl, c), kwargs, <<>>)}})

\* self.get_data_value(name)
get_data_value(ob, o, name) == DictGet(ob[o].values, name)

\* a setter that stored undeclared names would grow the field set
set_data_value_adding(ob, o, name, value) == DictSet(ob[o].values, name, value)

\* the value mapping after self.set_data_value(name, value)
set_data_value(ob, o, name, value) ==
  IF ItemIndex(ob[o].values, name) # 0 THEN DictSet(ob[o].values, name, value)
  ELSE ob[o].values

RECURSIVE data_dict(_, _)
\* self.data_dict() (the lists of this model hold values of one kind)
data_dict(ob, o) ==
  [i \in 1..Len(ob[o].values) |->
     LET k == ob[o].values[i].k
         v == ob[o].values[i].v
     IN  IF v.t = "obj" THEN Item(k, DictV(data_dict(ob, v.v)))
         ELSE IF v.t = "list" /\ Len(v.v) > 0 /\ v.v[1].t = "obj"
         THEN Item(k, ListV([j \in 1..Len(v.v) |-> DictV(data_dict(ob, v.v[j].v))]))
         ELSE Item(k, v)]

(***************************************************************************)
(* Messages.                                                               *)
(***************************************************************************)
\* a lookup that consulted the default first would ignore an explicit argument
assert_domain_default_first(domain, default) ==
  IF default.t # "none" THEN [e |-> "", v |-> default.v]
  ELSE IF domain.t # "none" THEN [e |-> "", v |-> domain.v]
  ELSE [e |-> "ValueError", v |-> <<>>]

\* EIP712Struct._assert_domain: every record instance is truthy, None is not
assert_domain(domain, default) ==
  IF domain.t # "none" THEN Ok(domain.v)
  ELSE IF default.t # "none" THEN Ok(default.v)
  ELSE Err("ValueError")

\* struct.type_name of an entry of the list `structs`
RefName(cl, ob, r) == IF r.kind = "obj" THEN cl[ob[r.id].cls].name ELSE cl[r.id].name
RefClass(ob, r) == IF r.kind = "obj" THEN ob[r.id].cls ELSE r.id

\* members_json of a class
MembersJson(cl, c) ==
  LET ms == get_members(cl, c)
  IN  [i \in 1..Len(ms) |-> [name |-> ms[i].name, type |-> TypeName(cl, ms[i].typ)]]

RECURSIVE BuildTypes(_, _, _, _)
\* the loop `for struct in structs: types[struct.type_name] = members_json`
BuildTypes(cl, ob, structs, types) ==
  IF structs = <<>> THEN types
  ELSE BuildTypes(cl, ob, Tail(structs),
                  DictSet(types, RefName(cl, ob, structs[1]),
                          MembersJson(cl, RefClass(ob, structs[1]))))

\* the list `structs` of to_message: the domain, self, and the gathered classes
MessageStructs(cl, ob, o, dom) ==
  gather_reference_structs(cl, ob[o].cls, <<ObjRef(dom), ObjRef(o)>>)

\* self.to_message(domain)
to_message(cl, ob, default, o, domain) ==
  LET d == assert_domain(domain, default)
  IN  IF d.e # "" THEN d
      ELSE Ok([primaryType |-> cl[ob[o].cls].name,
               types |-> BuildTypes(cl, ob, MessageStructs(cl, ob, o, d.v), <<>>),
               domain |-> data_dict(ob, d.v),
               message |-> data_dict(ob, o)])

\* the two hashes in the other order are not the signing payload
signable_bytes_swapped(cl, ob, default, o, domain) ==
  LET d == assert_domain(domain, default)
  IN  IF d.e # "" THEN d
      ELSE JoinResults(<<Ok(<<B(25), B(1)>>), hash_struct(cl, ob, o),
                         hash_struct(cl, ob, d.v)>>)

\* self.signable_bytes(domain)
signable_bytes(cl, ob, default, o, domain) ==
  LET d == assert_domain(domain, default)
  IN  IF d.e # "" THEN d
      ELSE JoinResults(<<Ok(<<B(25), B(1)>>), hash_struct(cl, ob, d.v),
                         hash_struct(cl, ob, o)>>)

RECURSIVE JsonValue(_)
\* json.loads(json.dumps(v, cls=BytesJSONEncoder)) of a serializable value: bytes
\* come back as the str to_hex gives, the other values as themselves
JsonValue(v) ==
  CASE v.t = "bytes" -> StrV(to_hex(v.v))
    [] v.t = "list" -> ListV([i \in 1..Len(v.v) |-> JsonValue(v.v[i])])
    [] v.t = "dict" ->
         DictV([i \in 1..Len(v.v) |-> Item(v.v[i].k, JsonValue(v.v[i].v))])
    [] OTHER -> v

RECURSIVE Serializable(_)
\* whether json.dumps accepts the value: a record instance is not serializable
Serializable(v) ==
  CASE v.t = "obj" -> FALSE
    [] v.t = "list" -> \A i \in 1..Len(v.v) : Serializable(v.v[i])
    [] v.t = "dict" -> \A i \in 1..Len(v.v) : Serializable(v.v[i].v)
    [] OTHER -> TRUE

\* json.loads(self.to_message_json(domain))
to_message_json(cl, ob, default, o, domain) ==
  LET m == to_message(cl, ob, default, o, domain)
  IN  IF m.e # "" THEN m
      ELSE IF ~Serializable(DictV(m.v.domain)) \/ ~Serializable(DictV(m.v.message))
      THEN Err("TypeError")
      ELSE Ok([m.v EXCEPT !.domain = JsonValue(DictV(m.v.domain)).v,
                          !.message = JsonValue(DictV(m.v.message)).v])

(***************************************************************************)
(* Deserialization.                                                        *)
(***************************************************************************)
\* the names of solidity_type_map
IsSolidityName(s) ==
  \/ s = <<"a", "d", "d", "r", "e", "s", "s">>
  \/ s = <<"b", "o", "o", "l">>
  \/ s = <<"b", "y", "t", "e", "s">>
  \/ s = <<"i", "n", "t">>
  \/ s = <<"s", "t", "r", "i", "n", "g">>
  \/ s = <<"u", "i", "n", "t">>

\* the optional group (\[(\d+)?\])? at the start of s: whether it matches, and the
\* digits of its inner group
BracketGroup(s) ==
  LET n == IF s = <<>> THEN 0 ELSE RunLen(Tail(s), "digit")
  IN  IF s # <<>> /\ s[1] = "[" /\ Len(s) >= n + 2 /\ s[n + 2] = "]"
      THEN [is_array |-> TRUE, array_len |-> SubSeq(s, 2, n + 1)]
      ELSE [is_array |-> FALSE, array_len |-> <<>>]

\* base_type(int(opt_len)) if opt_len else base_type()
BaseType(type_name, opt_len) ==
  LET has == opt_len # <<>>
      n == StrToInt(opt_len)
  IN  CASE type_name = <<"b", "y", "t", "e", "s">> ->
             IF ~has THEN Ok(Bytes(0))
             ELSE IF BytesInitErr(n) # "" THEN Err(BytesInitErr(n)) ELSE Ok(Bytes(n))
        [] type_name = <<"i", "n", "t">> ->
             IF ~has THEN Ok(SInt(256))
             ELSE IF IntInitErr(n) # "" THEN Err(IntInitErr(n)) ELSE Ok(SInt(n))
        [] type_name = <<"u", "i", "n", "t">> ->
             IF ~has THEN Ok(Uint(256))
             ELSE IF IntInitErr(n) # "" THEN Err(IntInitErr(n)) ELSE Ok(Uint(n))
        [] OTHER ->
             IF has THEN Err("TypeError")
             ELSE Ok(CASE type_name = <<"a", "d", "d", "r", "e", "s", "s">> -> Address
                       [] type_name = <<"b", "o", "o", "l">> -> Boolean
                       [] OTHER -> String)

\* from_solidity_type(solidity_type): re.match of ([a-z]+)(\d+)?(\[(\d+)?\])? at the
\* start of the string; Ok(NoneAttr) stands for the result None
from_solidity_type(s) ==
  LET n1 == RunLen(s, "lower")
      type_name == Take(s, n1)
      n2 == RunLen(Drop(s, n1), "digit")
      opt_len == SubSeq(s, n1 + 1, n1 + n2)
      br == BracketGroup(Drop(s, n1 + n2))
      base == BaseType(type_name, opt_len)
  IN  IF n1 = 0 THEN Ok(NoneAttr)
      ELSE IF ~IsSolidityName(type_name) THEN Ok(NoneAttr)
      ELSE IF base.e # "" THEN base
      ELSE IF br.is_array
      THEN Ok(Array(base.v, IF br.array_len # <<>> THEN StrToInt(br.array_len) ELSE 0))
      ELSE base

EIP712DomainName == <<"E", "I", "P", "7", "1", "2", "D", "o", "m", "a", "i", "n">>

\* structs[name] in from_message: the class built for the type of that name, where
\* the i-th type of message.types becomes class base + i; 0 stands for KeyError
StructsLookup(types, base, name) ==
  LET i == ItemIndex(types, name) IN IF i = 0 THEN 0 ELSE base + i

RECURSIVE FirstPass(_, _)
\* the first pass over one type's member list: the attribute dictionary after the
\* setattr calls, or the error from_solidity_type raised
FirstPass(members, cls) ==
  IF members = <<>> THEN [e |-> "", cls |-> cls]
  ELSE LET member_sol_type == from_solidity_type(members[1].type)
       IN  IF member_sol_type.e # "" THEN [e |-> member_sol_type.e, cls |-> cls]
           ELSE FirstPass(Tail(members),
                          [cls EXCEPT !.dict =
                             SetAttr(cls.dict, members[1].name, member_sol_type.v)])

\* the members the first pass leaves unresolved, in order
Unfulfilled(members) ==
  SelectSeq(members, LAMBDA m : from_solidity_type(m.type).v.k = "none")

\* the second pass for one unresolved member: re.match of
\* ([a-zA-Z0-9_]+)(\[(\d+)?\])? at the start of the type string
ResolveRef(types, base, type_name) ==
  LET n == RunLen(type_name, "word")
      base_type_name == Take(type_name, n)
      br == BracketGroup(Drop(type_name, n))
      ref_struct == StructsLookup(types, base, base_type_name)
  IN  IF n = 0 THEN Ok(NoneAttr)
      ELSE IF ref_struct = 0 THEN Err("KeyError")
      ELSE IF br.is_array
      THEN Ok(Array(StructT(ref_struct),
                    IF br.array_len # <<>> THEN StrToInt(br.array_len) ELSE 0))
      ELSE Ok(StructT(ref_struct))

RECURSIVE SecondPass(_, _, _, _)
\* the second pass over one type's unresolved members
SecondPass(types, base, unresolved, cls) ==
  IF unresolved = <<>> THEN [e |-> "", cls |-> cls]
  ELSE LET r == ResolveRef(types, base, unresolved[1].type)
       IN  IF r.e # "" THEN [e |-> r.e, cls |-> cls]
           ELSE IF r.v.k = "none" THEN SecondPass(types, base, Tail(unresolved), cls)
           ELSE SecondPass(types, base, Tail(unresolved),
                           [cls EXCEPT !.dict = SetAttr(cls.dict, unresolved[1].name, r.v)])

\* the first error of a sequence of results, "" when there is none
FirstErr(rs) ==
  IF \E i \in 1..Len(rs) : rs[i].e # ""
  THEN rs[CHOOSE i \in 1..Len(rs) : rs[i].e # "" /\ \A j \in 1..(i - 1) : rs[j].e = ""].e
  ELSE ""

\* the classes from_message builds from message.types: both passes
BuildClasses(types, base) ==
  The({IF FirstErr(first) # "" THEN [e |-> FirstErr(first), cls |-> <<>>]
       ELSE The({IF FirstErr(second) # "" THEN [e |-> FirstErr(second), cls |-> <<>>]
                 ELSE [e |-> "", cls |-> [i \in 1..Len(types) |-> second[i].cls]] :
                   second \in {[i \in 1..Len(types) |->
                                 SecondPass(types, base, Unfulfilled(types[i].v),
                                            first[i].cls)]}}) :
         first \in {[i \in 1..Len(types) |->
                      FirstPass(types[i].v, NewClass(types[i].k))]}})

\* EIP712Struct.from_message(message_dict): the registry and the heap after the
\* call, and the indices of the two instances of the returned StructTuple
from_message(cl, ob, m) ==
  LET primary_struct == StructsLookup(m.types, Len(cl), m.primaryType)
      domain_struct == StructsLookup(m.types, Len(cl), EIP712DomainName)
      fail(e) == [e |-> e, cl |-> cl, ob |-> ob, message |-> 0, domain |-> 0]
      instances(cl2) ==
        The({IF primary_result.e # "" THEN fail(primary_result.e)
             ELSE The({IF domain_result.e # "" THEN fail(domain_result.e)
                       ELSE [e |-> "", cl |-> cl2, ob |-> domain_result.ob,
                             message |-> primary_result.id,
                             domain |-> domain_result.id] :
                         domain_result \in
                           {Construct(cl2, primary_result.ob, domain_struct, m.domain)}}) :
               primary_result \in {Construct(cl2, ob, primary_struct, m.message)}})
  IN  The({IF built.e # "" THEN fail(built.e)
           ELSE IF primary_struct = 0 \/ domain_struct = 0 THEN fail("KeyError")
           ELSE The({instances(cl2) : cl2 \in {cl \o built.cls}}) :
             built \in {BuildClasses(m.types, Len(cl))}})

\* identity alone is not the equality of record instances
struct_eq_identity(cl, ob, a, other) == Ok(other.t = "obj" /\ other.v = a)

\* EIP712Struct.__eq__(self, other): TRUE or FALSE, or the error an encoder raises
struct_eq(cl, ob, a, other) ==
  IF other.t = "obj" /\ other.v = a THEN Ok(TRUE)
  ELSE IF other.t # "obj" THEN Ok(FALSE)
  ELSE IF encode_type(cl, ob[a].cls, TRUE) # encode_type(cl, ob[other.v].cls, TRUE)
  THEN Ok(FALSE)
  ELSE LET x == StructEncodeValue(cl, ob, a)
           y == StructEncodeValue(cl, ob, other.v)
       IN  IF x.e # "" THEN Err(x.e)
           ELSE IF y.e # "" THEN Err(y.e)
           ELSE Ok(x.v = y.v)

(***************************************************************************)
(* __hash__.  A hash is modelled by the set of its terms: the hash of a    *)
(* string, of a byte string, of None or of a number is one term of its     *)
(* own, a hash of 0 is no term, and a ^ b keeps the terms that a and b do  *)
(* not share.                                                              *)
(***************************************************************************)
\* operator.xor on two hashes
Xor(a, b) == (a \ b) \cup (b \ a)

\* hash(b) of a byte string, and of a text with the same bytes: 0 when empty
BufHash(bs) == IF bs = <<>> THEN {} ELSE {[t |-> "buf", v |-> bs]}

RECURSIVE XorAll(_, _)
\* functools.reduce(operator.xor, hs, acc)
XorAll(hs, acc) == IF hs = <<>> THEN acc ELSE XorAll(Tail(hs), Xor(acc, hs[1]))

RECURSIVE struct_hash(_, _, _)
\* hash(v) of a stored value: lists and dicts are unhashable
ValueHash(cl, ob, v) ==
  CASE v.t = "none" -> Ok({[t |-> "none", v |-> <<>>]})
    [] v.t = "str" -> Ok(BufHash(Utf8(v.v)))
    [] v.t = "bytes" -> Ok(BufHash(v.v))
    [] v.t \in {"int", "bool"} ->
         Ok(IF AsInt(v) = 0 THEN {} ELSE {[t |-> "int", v |-> <<B(AsInt(v))>>]})
    [] v.t = "obj" -> struct_hash(cl, ob, v.v)
    [] OTHER -> Err("TypeError")

\* EIP712Struct.__hash__ of the instance objs[o]
struct_hash(cl, ob, o) ==
  LET value_hashes == [i \in 1..Len(ob[o].values) |->
                         ValueHash(cl, ob, ob[o].values[i].v)]
  IN  IF FirstErr(value_hashes) # "" THEN Err(FirstErr(value_hashes))
      ELSE Ok(XorAll([i \in 1..Len(ob[o].values) |->
                        Xor(BufHash(Utf8(ob[o].values[i].k)), value_hashes[i].v)],
                     BufHash(Utf8(cl[ob[o].cls].name))))

(***************************************************************************)
(* Item access.                                                            *)
(***************************************************************************)
\* EIP712Struct._assert_key_is_member(key)
assert_key_is_member(cl, c, key) ==
  IF \E i \in 1..Len(get_members(cl, c)) : get_members(cl, c)[i].name = key
  THEN Ok(<<>>) ELSE Err("KeyError")

\* a validation that accepted every value would store values the field cannot hold
assert_property_type_lenient(cl, ob, c, key, value) == [e |-> "", v |-> <<>>]

\* EIP712Struct._assert_property_type(key, value), key a declared field
assert_property_type(cl, ob, c, key, value) ==
  LET kind == cl[c].dict[AttrIndex(cl[c].dict, key)].typ
  IN  IF IsStructT(kind)
      THEN IF /\ value.t = "obj"
              /\ encode_type(cl, ob[value.v].cls, FALSE) = encode_type(cl, kind.c, FALSE)
           THEN Ok(<<>>) ELSE Err("ValueError")
      ELSE IF encode_value(cl, ob, kind, value).e # "" THEN Err("ValueError")
      ELSE Ok(<<>>)

\* self[key]
getitem(cl, ob, o, key) ==
  IF assert_key_is_member(cl, ob[o].cls, key).e # ""
  THEN assert_key_is_member(cl, ob[o].cls, key)
  ELSE Ok(DictGet(ob[o].values, key))

\* self[key] = value: the error raised, and the value mapping after the call
setitem(cl, ob, o, key, value) ==
  IF assert_key_is_member(cl, ob[o].cls, key).e # ""
  THEN [e |-> "KeyError", values |-> ob[o].values]
  ELSE IF assert_property_type(cl, ob, ob[o].cls, key, value).e # ""
  THEN [e |-> "ValueError", values |-> ob[o].values]
  ELSE [e |-> "", values |-> DictSet(ob[o].values, key, value)]

\* a deletion that removed the entry would break the field set
delitem_removing(ob, o, key) ==
  [e |-> "", values |-> SelectSeq(ob[o].values, LAMBDA it : it.k # key)]

\* del self[key]
delitem(ob, o, key) == [e |-> "TypeError", values |-> ob[o].values]

(***************************************************************************)
(* make_domain.                                                            *)
(***************************************************************************)
S_name == <<"n", "a", "m", "e">>
S_version == <<"v", "e", "r", "s", "i", "o", "n">>
S_chainId == <<"c", "h", "a", "i", "n", "I", "d">>
S_verifyingContract ==
  <<"v", "e", "r", "i", "f", "y", "i", "n", "g", "C", "o", "n", "t", "r", "a", "c", "t">>
S_salt == <<"s", "a", "l", "t">>

\* the five parameters of make_domain, in order, with the type each one declares
DomainParams ==
  <<Attr(S_name, String), Attr(S_version, String), Attr(S_chainId, Uint(256)),
    Attr(S_verifyingContract, Address), Attr(S_salt, Bytes(32))>>

\* make_domain(**args): the class EIP712Domain with one member per argument that is
\* not None, in parameter order, and the keyword arguments of its instance
make_domain(args) ==
  LET given == SelectSeq(DomainParams, LAMBDA p : DictGet(args, p.name).t # "none")
  IN  IF given = <<>> THEN [e |-> "ValueError", cls |-> NewClass(EIP712DomainName),
                            kwargs |-> <<>>]
      ELSE [e |-> "",
            cls |-> [name |-> EIP712DomainName,
                     dict |-> ClassBody(NewClass(EIP712DomainName).dict, given)],
            kwargs |-> [i \in 1..Len(given) |->
                          Item(given[i].name, DictGet(args, given[i].name))]]

(***************************************************************************)
(* The application modelled: the record classes it declares, the instances *)
(* it builds at start-up, and the inputs of its later calls.               *)
(***************************************************************************)
S_s == <<"s">>
S_b == <<"b">>
S_d == <<"d">>
S_z == <<"z">>
S_g == <<"g">>
S_up == <<"u", "p">>
S_bars == <<"b", "a", "r", "s">>
S_meta == <<"m", "e", "t", "a">>
S_extra == <<"e", "x", "t", "r", "a">>

\* the names of the declared classes, in the order the application declares them
DeclaredNames ==
  <<<<"B", "a", "r">>, <<"Z", "e", "d">>, <<"F", "o", "o">>, <<"G", "r", "i", "d">>,
    EIP712DomainName, EIP712DomainName>>

\* the declared classes, each known by its position in the registry; the two domain
\* classes share a name and are the first and the last of that name
BarC == CHOOSE i \in DOMAIN DeclaredNames : DeclaredNames[i] = <<"B", "a", "r">>
ZedC == CHOOSE i \in DOMAIN DeclaredNames : DeclaredNames[i] = <<"Z", "e", "d">>
FooC == CHOOSE i \in DOMAIN DeclaredNames : DeclaredNames[i] = <<"F", "o", "o">>
GridC == CHOOSE i \in DOMAIN DeclaredNames : DeclaredNames[i] = <<"G", "r", "i", "d">>
DomainC ==
  CHOOSE i \in DOMAIN DeclaredNames :
    DeclaredNames[i] = EIP712DomainName /\ \A j \in 1..(i - 1) : DeclaredNames[j] # EIP712DomainName
MetaDomainC ==
  CHOOSE i \in DOMAIN DeclaredNames :
    DeclaredNames[i] = EIP712DomainName /\ i > DomainC

\* class Bar: s = String()
\* class Zed: b = Bytes(2); d = Bytes()
\* class Foo: z = Zed; s = String(); bars = Array(Bar); and, once Foo exists,
\*            Foo.up = Array(Foo)
\* class Grid: g = Array(Array(Uint(8), 2))
\* make_domain(name="d")'s class, and a hand-written domain class with a record member
DeclaredClasses ==
  <<MkClass(DeclaredNames[BarC], <<Attr(S_s, String)>>),
    MkClass(DeclaredNames[ZedC],
            <<Attr(S_b, Bytes(2)), Attr(S_d, Bytes(0))>>),
    [MkClass(DeclaredNames[FooC],
             <<Attr(S_z, StructT(ZedC)), Attr(S_s, String),
               Attr(S_bars, Array(StructT(BarC), 0))>>)
       EXCEPT !.dict = SetAttr(@, S_up, Array(StructT(FooC), 0))],
    MkClass(DeclaredNames[GridC], <<Attr(S_g, Array(Array(Uint(8), 2), 0))>>),
    make_domain(<<Item(S_name, StrV(<<"d">>))>>).cls,
    MkClass(EIP712DomainName, <<Attr(S_name, String), Attr(S_meta, StructT(BarC))>>)>>

BytesAB01 == <<B(171), B(1)>>

\* the instances built at start-up, in order:
\*   1: Bar(s="x")   2: Zed(b=b"\xab\x01", d=b"\x05")
\*   3: Foo(s="a", z=<2>, bars=[<1>], up=[])
\*   4: make_domain(name="d")   5: the hand-written domain (name="d", meta=<1>)
StartupCalls ==
  <<[c |-> BarC, kw |-> <<Item(S_s, StrV(<<"x">>))>>],
    [c |-> ZedC, kw |-> <<Item(S_b, BytesV(BytesAB01)), Item(S_d, BytesV(<<B(5)>>))>>],
    [c |-> FooC, kw |-> <<Item(S_s, StrV(<<"a">>)), Item(S_z, ObjV(2)),
                          Item(S_bars, ListV(<<ObjV(1)>>)), Item(S_up, ListV(<<>>))>>],
    [c |-> DomainC, kw |-> make_domain(<<Item(S_name, StrV(<<"d">>))>>).kwargs],
    [c |-> MetaDomainC, kw |-> <<Item(S_name, StrV(<<"d">>)), Item(S_meta, ObjV(1))>>]>>

RECURSIVE RunCalls(_, _, _)
RunCalls(cl, ob, calls) ==
  IF calls = <<>> THEN ob
  ELSE RunCalls(cl, Construct(cl, ob, calls[1].c, calls[1].kw).ob, Tail(calls))

StartupObjs == RunCalls(DeclaredClasses, <<>>, StartupCalls)

\* the keyword arguments of the constructor calls made later
ConstructInputs ==
  <<[c |-> BarC, kw |-> <<Item(S_s, StrV(<<"x">>))>>],
    [c |-> BarC, kw |-> <<>>],
    [c |-> ZedC, kw |-> <<Item(S_d, StrV(<<"0", "x", "0", "5">>)),
                          Item(S_b, StrV(<<"0", "x", "a", "b", "0", "1">>))>>],
    [c |-> ZedC, kw |-> <<Item(S_b, BytesV(<<B(1), B(2), B(3)>>))>>],
    [c |-> FooC, kw |-> <<Item(S_extra, IntV(1)), Item(S_bars, ListV(<<>>)),
                          Item(S_z, DictV(<<Item(S_b, BytesV(<<B(7)>>))>>))>>],
    [c |-> GridC, kw |-> <<Item(S_g, ListV(<<ListV(<<IntV(1), IntV(2)>>)>>))>>]>>

\* the arguments of the make_domain calls made later
MakeDomainInputs ==
  <<<<Item(S_name, StrV(<<"d">>))>>,
    <<Item(S_salt, BytesV(BytesAB01)), Item(S_chainId, IntV(1)),
      Item(S_version, StrV(<<"1">>))>>,
    <<>>>>

\* values that are no record instance, for comparisons
OtherValues == <<NoneV, StrV(<<"x">>), IntV(0)>>

\* whether objs[o] is an instance of a class named EIP712Domain
IsDomainObj(cl, ob, o) == cl[ob[o].cls].name = EIP712DomainName

\* the domain arguments a call may pass: None, or a domain instance
DomainArgs(cl, ob) ==
  <<NoneV>> \o SelectSeq([i \in 1..Len(ob) |-> ObjV(i)], LAMBDA v : IsDomainObj(cl, ob, v.v))

\* the field names and the values of the item-access calls made later
ItemNames == <<S_s, S_b, S_z, S_extra>>
\* None, "y", the Bar instance and the Zed instance built at start-up
ItemValues == <<NoneV, StrV(<<"y">>), ObjV(1), ObjV(2)>>

\* the instance the application changes: the one it built last, after start-up
Changeable(ob) == IF Len(ob) > Len(StartupObjs) THEN {Len(ob)} ELSE {}

\* the lengths the application passes to Bytes(), Int() and Uint()
MaxLength == 264
LengthArgs == (0 - 8)..MaxLength

\* the member types whose encode_value the application calls directly
PrimTypes ==
  <<Boolean, String, Address, Bytes(0), Bytes(2), Bytes(32),
    SInt(8), SInt(16), SInt(24), SInt(32), SInt(256),
    Uint(8), Uint(16), Uint(24), Uint(32), Uint(160), Uint(256)>>

\* the integers it passes: the edges of the 8, 16 and 24 bit ranges
EdgeInts ==
  <<0 - Pow2(24), 0 - Pow2(23) - 1, 0 - Pow2(23), 0 - 32769, 0 - 32768, 0 - 129, 0 - 128,
    0 - 1, 0, 1, 127, 128, 255, 256, 32767, 32768, 65535, 65536,
    Pow2(23) - 1, Pow2(23), Pow2(24) - 1, Pow2(24)>>

\* the values it passes: None, booleans, strings, byte strings and integers
PrimValues ==
  <<NoneV, BoolV(TRUE), BoolV(FALSE), StrV(<<"y">>), StrV(<<"0", "x", "0", "5">>),
    BytesV(<<>>), BytesV(BytesAB01), BytesV(<<B(1), B(2), B(3)>>), BytesV(Zeros(32)),
    BytesV(Zeros(33))>>
    \o [i \in 1..Len(EdgeInts) |-> IntV(EdgeInts[i])]

\* the pairs the application calls encode_value with: text and byte strings go to
\* bytes types, text to String, integers and booleans to Int and Uint, anything
\* to Boolean and Address
PassedTo(t, value) ==
  CASE t.k = "bytes" -> value.t \in {"none", "str", "bytes"}
    [] t.k = "string" -> value.t \in {"none", "str"}
    [] t.k \in {"int", "uint"} -> value.t \in {"none", "int", "bool"}
    [] t.k = "address" -> value.t \in {"none", "int", "bool", "str", "bytes"}
    [] OTHER -> TRUE

\* the value make_domain gets for each parameter that is given
DomainValues ==
  <<StrV(<<"d">>), StrV(<<"1">>), IntV(1), IntV(5), BytesV(BytesAB01)>>

\* make_domain's keyword arguments when the parameters in `given` are given, passed
\* last parameter first
DomainKwargs(given) ==
  SelectSeq([i \in 1..Len(DomainParams) |->
               Item(DomainParams[Len(DomainParams) + 1 - i].name,
                    DomainValues[Len(DomainParams) + 1 - i])],
            LAMBDA it : \E j \in given : DomainParams[j].name = it.k)

\* the application's record of its last call
Call(op, self, arg, r) == [op |-> op, self |-> self, arg |-> arg, e |-> r.e, out |-> r.v]

(***************************************************************************)
(* The state machine.  `ret` is the application's record of its last call. *)
(* The application makes a query (a call that changes nothing) when no     *)
(* query result is pending, and a pending result is consumed by            *)
(* from_message or dropped at the next call that changes the state.        *)
(***************************************************************************)
Queries ==
  {"to_message", "to_message_json", "signable_bytes", "encode_type", "encode_value", "eq",
   "getitem", "delitem", "new_type", "type_encode",
   "hash"}

\* a failed self[key] = value changes nothing either
Pending == ret.op \in Queries \/ (ret.op = "setitem" /\ ret.e # "")

Init ==
  /\ classes = DeclaredClasses
  /\ objs = StartupObjs
  /\ default_domain = NoneV
  /\ ret = Call("start", 0, NoneV, Ok(<<>>))

\* cls(**kwargs) for one of the later constructor calls
ConstructCall ==
  \E i \in 1..Len(ConstructInputs) :
    \E r \in {Construct(classes, objs, ConstructInputs[i].c, ConstructInputs[i].kw)} :
        /\ Len(objs) < Len(StartupObjs) + MaxMade
        /\ Len(r.ob) <= MaxObjs
        /\ objs' = r.ob
        /\ ret' = [op |-> "construct", self |-> r.id, arg |-> DictV(ConstructInputs[i].kw),
                   e |-> r.e, out |-> <<>>]
        /\ UNCHANGED <<classes, default_domain>>

\* make_domain(**args): a new class and its instance, or ValueError
MakeDomainCall ==
  \E i \in 1..Len(MakeDomainInputs) :
    \E d \in {make_domain(MakeDomainInputs[i])} :
        /\ Len(objs) < Len(StartupObjs) + MaxMade
        /\ IF d.e # ""
           THEN /\ UNCHANGED <<classes, objs>>
                /\ ret' = [op |-> "make_domain", self |-> 0,
                           arg |-> DictV(MakeDomainInputs[i]), e |-> d.e, out |-> <<>>]
           ELSE \E cl2 \in {Append(classes, d.cls)} :
                \E r \in {Construct(cl2, objs, Len(cl2), d.kwargs)} :
                  /\ classes' = cl2
                  /\ objs' = r.ob
                  /\ ret' = [op |-> "make_domain", self |-> r.id,
                             arg |-> DictV(MakeDomainInputs[i]), e |-> r.e, out |-> <<>>]
        /\ UNCHANGED default_domain

\* eip712_structs.default_domain = d (a domain instance, or None to clear it)
SetDefaultDomain ==
  \E i \in 1..Len(DomainArgs(classes, objs)) :
    /\ default_domain' = DomainArgs(classes, objs)[i]
    /\ default_domain' # default_domain
    /\ ret' = Call("set_default_domain", 0, default_domain', Ok(<<>>))
    /\ UNCHANGED <<classes, objs>>

\* self.to_message(domain)
ToMessage ==
  \E o \in 1..Len(objs) : \E i \in 1..Len(DomainArgs(classes, objs)) :
    LET d == DomainArgs(classes, objs)[i]
    IN  /\ ~Pending
        /\ ret' = Call("to_message", o, d, to_message(classes, objs, default_domain, o, d))
        /\ UNCHANGED <<classes, objs, default_domain>>

\* json.loads(self.to_message_json(domain))
ToMessageJson ==
  \E o \in 1..Len(objs) : \E i \in 1..Len(DomainArgs(classes, objs)) :
    LET d == DomainArgs(classes, objs)[i]
    IN  /\ ~Pending
        /\ ret' = Call("to_message_json", o, d,
                       to_message_json(classes, objs, default_domain, o, d))
        /\ UNCHANGED <<classes, objs, default_domain>>

\* EIP712Struct.from_message(m), m the message the last call returned
FromMessage ==
  /\ ret.op \in {"to_message", "to_message_json"}
  /\ ret.e = ""
  /\ \E r \in {from_message(classes, objs, ret.out)} :
      /\ Len(r.ob) <= MaxObjs
      /\ classes' = r.cl
      /\ objs' = r.ob
      /\ ret' = [op |-> "from_message", self |-> ret.self, arg |-> ret.arg, e |-> r.e,
                 out |-> [message |-> r.message, domain |-> r.domain, m |-> ret.out,
                          base |-> Len(classes), json |-> ret.op = "to_message_json"]]
      /\ UNCHANGED default_domain

\* self.signable_bytes(domain)
SignableBytes ==
  \E o \in 1..Len(objs) : \E i \in 1..Len(DomainArgs(classes, objs)) :
    LET d == DomainArgs(classes, objs)[i]
    IN  /\ ~Pending
        /\ ret' = Call("signable_bytes", o, d,
                       signable_bytes(classes, objs, default_domain, o, d))
        /\ UNCHANGED <<classes, objs, default_domain>>

\* cls.encode_type(resolve)
EncodeType ==
  \E c \in 1..Len(classes) : \E resolve \in BOOLEAN :
    /\ ~Pending
    /\ ret' = Call("encode_type", c, BoolV(resolve), Ok(encode_type(classes, c, resolve)))
    /\ UNCHANGED <<classes, objs, default_domain>>

\* self.encode_value()
EncodeValue ==
  \E o \in 1..Len(objs) :
    /\ ~Pending
    /\ ret' = Call("encode_value", o, NoneV, StructEncodeValue(classes, objs, o))
    /\ UNCHANGED <<classes, objs, default_domain>>

\* self == other, other a record instance or another value
Equals ==
  \E a \in 1..Len(objs) :
    \E i \in 1..(Len(objs) + Len(OtherValues)) :
      LET other == IF i <= Len(objs) THEN ObjV(i) ELSE OtherValues[i - Len(objs)]
      IN  /\ ~Pending
          /\ ret' = Call("eq", a, other, struct_eq(classes, objs, a, other))
          /\ UNCHANGED <<classes, objs, default_domain>>

\* self[key]
GetItem ==
  \E o \in Changeable(objs) : \E n \in 1..Len(ItemNames) :
    /\ ~Pending
    /\ ret' = Call("getitem", o, StrV(ItemNames[n]), getitem(classes, objs, o, ItemNames[n]))
    /\ UNCHANGED <<classes, objs, default_domain>>

\* self[key] = value
SetItem ==
  \E o \in Changeable(objs) : \E n \in 1..Len(ItemNames) : \E v \in 1..Len(ItemValues) :
    \E r \in {setitem(classes, objs, o, ItemNames[n], ItemValues[v])} :
      /\ r.e # "" => ~Pending
      /\ objs' = [objs EXCEPT ![o].values = r.values]
      /\ ret' = [op |-> "setitem", self |-> o, arg |-> Item(ItemNames[n], ItemValues[v]),
                 e |-> r.e, out |-> objs[o].values]
      /\ UNCHANGED <<classes, default_domain>>

\* del self[key]
DelItem ==
  \E o \in Changeable(objs) : \E n \in 1..Len(ItemNames) :
    \E r \in {delitem(objs, o, ItemNames[n])} :
      /\ ~Pending
      /\ objs' = [objs EXCEPT ![o].values = r.values]
      /\ ret' = [op |-> "delitem", self |-> o, arg |-> StrV(ItemNames[n]),
                 e |-> r.e, out |-> objs[o].values]
      /\ UNCHANGED <<classes, default_domain>>

\* self.set_data_value(name, value)
SetDataValue ==
  \E o \in Changeable(objs) : \E n \in 1..Len(ItemNames) : \E v \in 1..Len(ItemValues) :
    /\ ItemIndex(objs[o].values, ItemNames[n]) = 0 => ~Pending
    /\ objs' = [objs EXCEPT ![o].values = set_data_value(objs, o, ItemNames[n], ItemValues[v])]
    /\ ret' = [op |-> "set_data_value", self |-> o,
               arg |-> Item(ItemNames[n], ItemValues[v]), e |-> "", out |-> objs[o].values]
    /\ UNCHANGED <<classes, default_domain>>

\* Bytes(length), Int(length) or Uint(length); the application declares its member
\* types before it builds further instances
NewType ==
  \E kind \in {"bytes", "int", "uint"} : \E length \in LengthArgs :
    /\ ~Pending
    /\ Len(objs) = Len(StartupObjs)
    /\ ret' = Call("new_type", 0, [kind |-> kind, length |-> length],
                   CASE kind = "bytes" -> BytesInit(length)
                     [] kind = "int" -> IntInit(length)
                     [] kind = "uint" -> UintInit(length))
    /\ UNCHANGED <<classes, objs, default_domain>>

\* t.encode_value(value) for a member type t that is no record class
TypeEncode ==
  \E i \in 1..Len(PrimTypes) : \E j \in 1..Len(PrimValues) :
    /\ ~Pending
    /\ PassedTo(PrimTypes[i], PrimValues[j])
    /\ ret' = Call("type_encode", 0, [typ |-> PrimTypes[i], value |-> PrimValues[j]],
                   encode_value(classes, objs, PrimTypes[i], PrimValues[j]))
    /\ UNCHANGED <<classes, objs, default_domain>>

\* make_domain with any of its five parameters given
MakeDomainAny ==
  \E given \in SUBSET (1..Len(DomainParams)) :
    \E d \in {make_domain(DomainKwargs(given))} :
        /\ Len(objs) < Len(StartupObjs) + MaxMade
        /\ IF d.e # ""
           THEN /\ UNCHANGED <<classes, objs>>
                /\ ret' = [op |-> "make_domain", self |-> 0,
                           arg |-> DictV(DomainKwargs(given)), e |-> d.e, out |-> <<>>]
           ELSE \E cl2 \in {Append(classes, d.cls)} :
                \E r \in {Construct(cl2, objs, Len(cl2), d.kwargs)} :
                  /\ classes' = cl2
                  /\ objs' = r.ob
                  /\ ret' = [op |-> "make_domain", self |-> r.id,
                             arg |-> DictV(DomainKwargs(given)), e |-> r.e, out |-> <<>>]
        /\ UNCHANGED default_domain

\* hash(self)
HashCall ==
  \E o \in 1..Len(objs) :
    /\ ~Pending
    /\ ret' = Call("hash", o, NoneV, struct_hash(classes, objs, o))
    /\ UNCHANGED <<classes, objs, default_domain>>

Next ==
  \/ ConstructCall
  \/ MakeDomainCall
  \/ SetDefaultDomain
  \/ ToMessage
  \/ ToMessageJson
  \/ FromMessage
  \/ SignableBytes
  \/ EncodeType
  \/ EncodeValue
  \/ Equals
  \/ GetItem
  \/ SetItem
  \/ DelItem
  \/ SetDataValue
  \/ NewType
  \/ TypeEncode
  \/ MakeDomainAny
  \/ HashCall

Spec == Init /\ [][Next]_vars

\* the calls that build, serialize and deserialize
NextMsg ==
  \/ ConstructCall
  \/ MakeDomainCall
  \/ ToMessage
  \/ ToMessageJson
  \/ FromMessage

SpecMsg == Init /\ [][NextMsg]_vars

\* the calls that set the default domain and use a domain
NextDomain ==
  \/ MakeDomainCall
  \/ SetDefaultDomain
  \/ ToMessage
  \/ SignableBytes

SpecDomain == Init /\ [][NextDomain]_vars

\* the calls that build instances, encode and compare them
NextType ==
  \/ ConstructCall
  \/ EncodeType
  \/ EncodeValue
  \/ Equals
  \/ HashCall

SpecType == Init /\ [][NextType]_vars

\* the calls that build instances and read, set and delete their items
NextItem ==
  \/ ConstructCall
  \/ GetItem
  \/ SetItem
  \/ DelItem
  \/ SetDataValue

SpecItem == Init /\ [][NextItem]_vars

\* the calls that build instances and encode values
NextEnc ==
  \/ ConstructCall
  \/ EncodeValue
  \/ TypeEncode

SpecEnc == Init /\ [][NextEnc]_vars

\* the calls that declare member types and domains
NextDecl ==
  \/ NewType
  \/ MakeDomainAny

SpecDecl == Init /\ [][NextDecl]_vars

(***************************************************************************)
(* Properties.                                                             *)
(***************************************************************************)
MemberNames(cl, c) == [i \in 1..Len(get_members(cl, c)) |-> get_members(cl, c)[i].name]

\* the record classes a class names in a record-typed or array-of-record field
RefSet(cl, c) ==
  {get_members(cl, c)[i].typ.c :
     i \in {j \in 1..Len(get_members(cl, c)) : IsStructT(get_members(cl, c)[j].typ)}}
  \cup
  {get_members(cl, c)[i].typ.m[1].c :
     i \in {j \in 1..Len(get_members(cl, c)) :
              /\ get_members(cl, c)[j].typ.k = "array"
              /\ IsStructT(get_members(cl, c)[j].typ.m[1])}}

RECURSIVE Closure(_, _)
Closure(cl, S) ==
  LET T == S \cup UNION {RefSet(cl, c) : c \in S}
  IN  IF T = S THEN S ELSE Closure(cl, T)

\* the record classes transitively reachable from class c through its fields
Reach(cl, c) == Closure(cl, RefSet(cl, c))

\* the classes of S listed in strictly ascending order of type name
Ascending(cl, S) ==
  CHOOSE f \in [1..Cardinality(S) -> S] :
    \A i, j \in 1..Cardinality(S) : i < j => StrLess(cl[f[i]].name, cl[f[j]].name)

\* a primitive, an array of a primitive, a record class, or an array of a record class
PlainType(t) ==
  \/ t.k \in {"address", "bool", "bytes", "int", "uint", "string", "struct"}
  \/ t.k = "array" /\ t.m[1].k \in {"address", "bool", "bytes", "int", "uint", "string", "struct"}

RECURSIVE Supplied(_, _)
\* no None anywhere in the value
Supplied(ob, v) ==
  CASE v.t = "none" -> FALSE
    [] v.t = "list" -> \A i \in 1..Len(v.v) : Supplied(ob, v.v[i])
    [] v.t = "obj" -> \A i \in 1..Len(ob[v.v].values) : Supplied(ob, ob[v.v].values[i].v)
    [] OTHER -> TRUE

RECURSIVE SameValue(_, _)
\* whether two values are the same value: the same kind of value, then the same
\* content
SameValue(x, y) ==
  /\ x.t = y.t
  /\ CASE x.t = "none" -> TRUE
       [] x.t \in {"list", "dict"} ->
            /\ Len(x.v) = Len(y.v)
            /\ \A i \in 1..Len(x.v) :
                 IF x.t = "list" THEN SameValue(x.v[i], y.v[i])
                 ELSE x.v[i].k = y.v[i].k /\ SameValue(x.v[i].v, y.v[i].v)
       [] OTHER -> x.v = y.v

\* the instance a call used as domain: the explicit argument, else the default
UsedDomain == IF ret.arg.t = "obj" THEN ret.arg.v ELSE default_domain.v

\* C1: for an instance whose fields (and those of every record class it reaches) are
\* primitives, arrays of primitives, records and arrays of records, with every value
\* supplied, from_message(inst.to_message(d)) succeeds and its message has the same
\* hash_struct() as inst
C1_RoundTripHash ==
  (/\ ret.op = "from_message"
   /\ ~ret.out.json
   /\ \A c \in {objs[ret.self].cls} \cup Reach(classes, objs[ret.self].cls) :
        \A i \in 1..Len(get_members(classes, c)) : PlainType(get_members(classes, c)[i].typ)
   /\ Supplied(objs, ObjV(ret.self))
   /\ hash_struct(classes, objs, ret.self).e = "")
  => /\ ret.e = ""
     /\ hash_struct(classes, objs, ret.out.message).e = ""
     /\ hash_struct(classes, objs, ret.out.message).v = hash_struct(classes, objs, ret.self).v

\* C2: a successful signable_bytes is 66 bytes: 0x19, 0x01, the 32 bytes of
\* domain.hash_struct(), then the 32 bytes of self.hash_struct(); and it succeeds
\* whenever a domain is available and both hashes are defined
C2_SignableBytes ==
  ret.op = "signable_bytes" =>
    /\ ret.e = "" =>
         /\ Len(ret.out) = 66
         /\ ret.out[1] = B(25)
         /\ ret.out[2] = B(1)
         /\ hash_struct(classes, objs, UsedDomain).e = ""
         /\ hash_struct(classes, objs, ret.self).e = ""
         /\ Len(hash_struct(classes, objs, UsedDomain).v) = 32
         /\ SubSeq(ret.out, 3, 34) = hash_struct(classes, objs, UsedDomain).v
         /\ SubSeq(ret.out, 35, 66) = hash_struct(classes, objs, ret.self).v
    /\ (/\ (ret.arg.t = "obj" \/ default_domain.t = "obj")
        /\ hash_struct(classes, objs, UsedDomain).e = ""
        /\ hash_struct(classes, objs, ret.self).e = "") => ret.e = ""

\* signable_bytes returned for a domain whose hash differs from the instance's
C2_Witness ==
  /\ ret.op = "signable_bytes"
  /\ ret.e = ""
  /\ ret.arg.t = "obj"
  /\ ret.arg.v # ret.self
  /\ SubSeq(ret.out, 3, 34) # SubSeq(ret.out, 35, 66)

\* C3: encode_type(resolve=True) of a class T is T's own signature followed by
\* encode_type(resolve=False) of every class reachable from T other than T, each
\* once, in strictly ascending order of type name
C3_EncodeTypeResolved ==
  (ret.op = "encode_type" /\ ret.arg = BoolV(TRUE)) =>
    LET others == Ascending(classes, Reach(classes, ret.self) \ {ret.self})
    IN  ret.out =
          encode_type(classes, ret.self, FALSE)
            \o ConcatSigs(classes, [i \in 1..Len(others) |-> others[i]])

\* encode_type() of Foo, which reaches itself through Zed and names Zed before Bar
C3_Witness ==
  /\ ret.op = "encode_type"
  /\ ret.arg = BoolV(TRUE)
  /\ ret.self = FooC
  /\ FooC \in Reach(classes, FooC)
  /\ Reach(classes, FooC) = {BarC, ZedC, FooC}

\* the i-th 32-byte word of a struct-level encode_value()
Word(bs, i) == SubSeq(bs, 32 * (i - 1) + 1, 32 * i)

\* the concatenation of hash_struct() of the instances a list holds
RECURSIVE ConcatHashes(_, _, _)
ConcatHashes(cl, ob, xs) ==
  IF xs = <<>> THEN <<>>
  ELSE hash_struct(cl, ob, xs[1].v).v \o ConcatHashes(cl, ob, Tail(xs))

\* the concatenation of the member type's encoding of the values a list holds
RECURSIVE ConcatEncodings(_, _, _, _)
ConcatEncodings(cl, ob, t, xs) ==
  IF xs = <<>> THEN <<>>
  ELSE encode_value(cl, ob, t, xs[1]).v \o ConcatEncodings(cl, ob, t, Tail(xs))

\* C4: in an instance's encode_value(), the word of an array member is the hash of
\* the concatenated hash_struct() of its elements when the member type is a record
\* class, and of the concatenated member encodings when it is a primitive
C4_ArrayOfRecordsHashesStructs ==
  (ret.op = "encode_value" /\ ret.e = "") =>
    \A i \in 1..Len(get_members(classes, objs[ret.self].cls)) :
      LET a == get_members(classes, objs[ret.self].cls)[i]
          v == get_data_value(objs, ret.self, a.name)
      IN  (a.typ.k = "array" /\ v.t = "list") =>
            Word(ret.out, i) =
              IF IsStructT(a.typ.m[1]) THEN keccak(ConcatHashes(classes, objs, v.v))
              ELSE keccak(ConcatEncodings(classes, objs, a.typ.m[1], v.v))

\* whether a type string is a primitive name, an optional width and an optional
\* array suffix, and nothing else
NamesPrimitive(s) ==
  \E n1 \in 1..Len(s) : \E n2 \in 0..(Len(s) - n1) :
    /\ IsSolidityName(Take(s, n1))
    /\ \A j \in (n1 + 1)..(n1 + n2) : IsDigit(s[j])
    /\ \/ n1 + n2 = Len(s)
       \/ /\ Len(s) >= n1 + n2 + 2
          /\ s[n1 + n2 + 1] = "["
          /\ s[Len(s)] = "]"
          /\ \A j \in (n1 + n2 + 2)..(Len(s) - 1) : IsDigit(s[j])

IsPrimitiveType(t) == t.k \in {"address", "bool", "bytes", "int", "uint", "string"}

\* C5: after from_message, a field has a primitive or array-of-primitive type only
\* if its type string names a primitive; any other type string gives the record
\* class of that name built in the same call, or an Array of it; and the field's
\* type_name is the type string
C5_FieldTypesFollowTypeStrings ==
  (ret.op = "from_message" /\ ret.e = "") =>
    \A i \in 1..Len(ret.out.m.types) :
      \A j \in 1..Len(ret.out.m.types[i].v) :
        LET c == ret.out.base + i
            str == ret.out.m.types[i].v[j].type
            k == AttrIndex(classes[c].dict, ret.out.m.types[i].v[j].name)
            t == classes[c].dict[k].typ
            elem == IF t.k = "array" THEN t.m[1] ELSE t
        IN  /\ k # 0
            /\ IsMemberType(t)
            /\ IsPrimitiveType(elem) => NamesPrimitive(str)
            /\ ~NamesPrimitive(str) =>
                 /\ IsStructT(elem)
                 /\ elem.c > ret.out.base
                 /\ elem.c <= ret.out.base + Len(ret.out.m.types)
            /\ TypeName(classes, t) = str

\* the member names of the declared classes, as their class bodies list them
DeclaredOrder ==
  <<<<S_s>>, <<S_b, S_d>>, <<S_z, S_s, S_bars, S_up>>, <<S_g>>, <<S_name>>,
    <<S_name, S_meta>>>>

\* C6: get_members() lists the fields in declaration order whatever keyword
\* arguments an instance was built from, the instance's value mapping follows the
\* same order, and a class built by from_message lists them in the order of its
\* member list in message.types, fields resolved by the second pass included
C6_MembersInDeclarationOrder ==
  /\ \A o \in 1..Len(objs) :
       /\ objs[o].cls <= Len(DeclaredOrder) =>
            MemberNames(classes, objs[o].cls) = DeclaredOrder[objs[o].cls]
       /\ [i \in 1..Len(objs[o].values) |-> objs[o].values[i].k]
            = MemberNames(classes, objs[o].cls)
  /\ (ret.op = "from_message" /\ ret.e = "") =>
       \A i \in 1..Len(ret.out.m.types) :
         MemberNames(classes, ret.out.base + i)
           = [j \in 1..Len(ret.out.m.types[i].v) |-> ret.out.m.types[i].v[j].name]

\* from_message rebuilt Foo, whose first field is a record resolved by the second
\* pass, and an instance exists that was built from keywords in another order
C6_Witness ==
  /\ ret.op = "from_message"
  /\ ret.e = ""
  /\ classes[objs[ret.out.message].cls].name = DeclaredNames[FooC]
  /\ objs[ret.out.message].cls > Len(DeclaredOrder)
  /\ MemberNames(classes, objs[ret.out.message].cls) = <<S_z, S_s, S_bars, S_up>>
  /\ from_solidity_type(TypeName(classes, StructT(ZedC))).v.k = "none"

\* C7: the types of a to_message result have an entry, the ordered member list,
\* for the primary class, the domain class and every class reachable from the
\* fields of either, and for no other name
C7_TypesCoverDomainReferences ==
  (ret.op = "to_message" /\ ret.e = "") =>
    LET wanted == {objs[ret.self].cls, objs[UsedDomain].cls}
                    \cup Reach(classes, objs[ret.self].cls)
                    \cup Reach(classes, objs[UsedDomain].cls)
    IN  /\ {ret.out.types[i].k : i \in 1..Len(ret.out.types)}
             = {classes[c].name : c \in wanted}
        /\ \A c \in wanted :
             /\ ItemIndex(ret.out.types, classes[c].name) # 0
             /\ ret.out.types[ItemIndex(ret.out.types, classes[c].name)].v
                  = MembersJson(classes, c)

\* whether every field of the class is a bytes field
BytesOnly(cl, c) ==
  /\ get_members(cl, c) # <<>>
  /\ \A i \in 1..Len(get_members(cl, c)) : get_members(cl, c)[i].typ.k = "bytes"

\* whether s is "0x" followed by two lowercase hex digits per byte of bs
LowerHexOf(s, bs) ==
  /\ Len(s) = 2 + 2 * Len(bs)
  /\ s[1] = "0"
  /\ s[2] = "x"
  /\ \A i \in 3..Len(s) : IsDigit(s[i]) \/ (Ord(s[i]) >= 97 /\ Ord(s[i]) <= 102)
  /\ HexToBytes(s) = Ok(bs)

\* C8: for an instance whose fields are all bytes fields holding valid values, and
\* a domain with primitive fields only, the JSON form renders every bytes value as
\* 0x and lowercase hex, and from_message of the parsed JSON succeeds with a
\* message equal to the instance and a domain equal to the domain
C8_JsonRoundTripEqual ==
  (/\ ret.op = "from_message"
   /\ ret.out.json
   /\ BytesOnly(classes, objs[ret.self].cls)
   /\ StructEncodeValue(classes, objs, ret.self).e = ""
   /\ Reach(classes, objs[UsedDomain].cls) = {}
   /\ StructEncodeValue(classes, objs, UsedDomain).e = "")
  => /\ ret.e = ""
     /\ struct_eq(classes, objs, ret.out.message, ObjV(ret.self)) = Ok(TRUE)
     /\ struct_eq(classes, objs, ret.out.domain, ObjV(UsedDomain)) = Ok(TRUE)
     /\ \A i \in 1..Len(objs[ret.self].values) :
          objs[ret.self].values[i].v.t = "bytes" =>
            /\ DictGet(ret.out.m.message, objs[ret.self].values[i].k).t = "str"
            /\ LowerHexOf(DictGet(ret.out.m.message, objs[ret.self].values[i].k).v,
                          objs[ret.self].values[i].v.v)

\* the JSON round trip of Zed(b=b"\xab\x01", d=b"\x05"), whose second byte of b
\* has a leading zero digit
C8_Witness ==
  /\ ret.op = "from_message"
  /\ ret.out.json
  /\ ret.e = ""
  /\ objs[ret.self].cls = ZedC
  /\ SameValue(get_data_value(objs, ret.self, S_b), BytesV(BytesAB01))
  /\ SameValue(get_data_value(objs, ret.out.message, S_b),
               StrV(<<"0", "x", "a", "b", "0", "1">>))
  /\ ret.out.message # ret.self

\* C9: a == b is FALSE when b is no record instance and TRUE when b is a; when
\* both encode it is TRUE exactly if the resolved type signatures are equal and the
\* encoded values are equal, it agrees with b == a, and it is TRUE for two
\* instances of one class holding the same values
C9_Equality ==
  ret.op = "eq" =>
    /\ ret.arg.t # "obj" => ret.e = "" /\ ret.out = FALSE
    /\ (ret.arg.t = "obj" /\ ret.arg.v = ret.self) => ret.e = "" /\ ret.out = TRUE
    /\ (/\ ret.arg.t = "obj"
        /\ StructEncodeValue(classes, objs, ret.self).e = ""
        /\ StructEncodeValue(classes, objs, ret.arg.v).e = "") =>
         /\ ret.e = ""
         /\ ret.out =
              (/\ encode_type(classes, objs[ret.self].cls, TRUE)
                    = encode_type(classes, objs[ret.arg.v].cls, TRUE)
               /\ StructEncodeValue(classes, objs, ret.self).v
                    = StructEncodeValue(classes, objs, ret.arg.v).v)
         /\ struct_eq(classes, objs, ret.arg.v, ObjV(ret.self)) = Ok(ret.out)
         /\ (/\ objs[ret.self].cls = objs[ret.arg.v].cls
             /\ SameValue(DictV(objs[ret.self].values), DictV(objs[ret.arg.v].values)))
              => ret.out = TRUE

\* two distinct instances compared equal
C9_Witness ==
  /\ ret.op = "eq"
  /\ ret.e = ""
  /\ ret.arg.t = "obj"
  /\ ret.arg.v # ret.self
  /\ ret.out = TRUE

\* C10: to_message and signable_bytes use the explicit domain when one is given,
\* else the default domain as it is set at the call, and with neither they raise
\* ValueError and return nothing
C10_DomainResolution ==
  ret.op \in {"to_message", "signable_bytes"} =>
    IF ret.arg.t = "none" /\ default_domain.t = "none"
    THEN ret.e = "ValueError" /\ ret.out = <<>>
    ELSE /\ ret.e # "ValueError"
         /\ (ret.op = "to_message") =>
              /\ ret.e = ""
              /\ SameValue(DictV(ret.out.domain), DictV(data_dict(objs, UsedDomain)))
         /\ (ret.op = "signable_bytes" /\ ret.e = "") =>
              SubSeq(ret.out, 3, 34) = hash_struct(classes, objs, UsedDomain).v

\* a call given an explicit domain while another domain, with other data, is the
\* default
C10_Witness ==
  /\ ret.op = "to_message"
  /\ ret.e = ""
  /\ ret.arg.t = "obj"
  /\ default_domain.t = "obj"
  /\ default_domain.v # ret.arg.v
  /\ ~SameValue(DictV(data_dict(objs, default_domain.v)),
                DictV(data_dict(objs, ret.arg.v)))

\* whether key is a declared field of the class
Declared(cl, c, key) == \E i \in 1..Len(get_members(cl, c)) : get_members(cl, c)[i].name = key

\* the declared type of a declared field
KindOf(cl, c, key) ==
  get_members(cl, c)[CHOOSE i \in 1..Len(get_members(cl, c)) :
                       get_members(cl, c)[i].name = key].typ

\* whether the value matches the field's declared type: for a record field, a
\* record instance with the field type's own signature; for any other field, a
\* value the field type encodes
Matches(cl, ob, kind, value) ==
  IF kind.k = "struct"
  THEN /\ value.t = "obj"
       /\ StructSig(cl, ob[value.v].cls) = StructSig(cl, kind.c)
  ELSE encode_value(cl, ob, kind, value).e = ""

\* C11: self[key] and self[key] = value raise KeyError for an undeclared key;
\* self[key] = value raises ValueError when the value does not match the declared
\* type; a failed set leaves the whole value mapping as it was, and a successful
\* one changes the entry of key and nothing else
C11_ItemAccessValidation ==
  /\ ret.op = "getitem" =>
       IF Declared(classes, objs[ret.self].cls, ret.arg.v)
       THEN ret.e = "" /\ SameValue(ret.out, DictGet(objs[ret.self].values, ret.arg.v))
       ELSE ret.e = "KeyError"
  /\ ret.op = "setitem" =>
       /\ ret.e = (IF ~Declared(classes, objs[ret.self].cls, ret.arg.k) THEN "KeyError"
                   ELSE IF ~Matches(classes, objs,
                                    KindOf(classes, objs[ret.self].cls, ret.arg.k), ret.arg.v)
                   THEN "ValueError" ELSE "")
       /\ Len(objs[ret.self].values) = Len(ret.out)
       /\ \A i \in 1..Len(ret.out) :
            /\ objs[ret.self].values[i].k = ret.out[i].k
            /\ SameValue(objs[ret.self].values[i].v,
                         IF ret.e = "" /\ ret.out[i].k = ret.arg.k THEN ret.arg.v
                         ELSE ret.out[i].v)

\* a Bar instance was refused for a field declared as Zed, whose old value stays
C11_Witness ==
  /\ ret.op = "setitem"
  /\ ret.e = "ValueError"
  /\ ret.arg.k = S_z
  /\ ret.arg.v.t = "obj"
  /\ objs[ret.self].cls = FooC
  /\ DictGet(objs[ret.self].values, S_z).t = "obj"
  /\ DictGet(objs[ret.self].values, S_z).v # ret.arg.v.v

\* C12: del self[key] raises TypeError whether or not key is a declared field, and
\* leaves the value mapping as it was
C12_DeleteAlwaysFails ==
  ret.op = "delitem" =>
    /\ ret.e = "TypeError"
    /\ SameValue(DictV(objs[ret.self].values), DictV(ret.out))

\* a deletion of a declared field that holds a value was refused
C12_Witness ==
  /\ ret.op = "delitem"
  /\ ret.e = "TypeError"
  /\ Declared(classes, objs[ret.self].cls, ret.arg.v)
  /\ DictGet(objs[ret.self].values, ret.arg.v).t # "none"

\* C16: whatever keyword arguments built an instance and whatever set_data_value,
\* self[key] = value and del self[key] calls followed, the keys of its value mapping
\* are exactly the declared field names, each once, and a field no keyword supplied
\* holds None after construction
C16_FieldSetInvariant ==
  /\ \A o \in 1..Len(objs) :
       /\ {objs[o].values[i].k : i \in 1..Len(objs[o].values)}
            = {get_members(classes, objs[o].cls)[i].name :
                 i \in 1..Len(get_members(classes, objs[o].cls))}
       /\ \A i, j \in 1..Len(objs[o].values) :
            objs[o].values[i].k = objs[o].values[j].k => i = j
  /\ (ret.op = "construct" /\ ret.e = "") =>
       \A i \in 1..Len(objs[ret.self].values) :
         ItemIndex(ret.arg.v, objs[ret.self].values[i].k) = 0
           => objs[ret.self].values[i].v.t = "none"

\* set_data_value was called with a name the class does not declare, on an
\* instance built with a keyword the class does not declare and a field missing
C16_Witness ==
  /\ ret.op = "set_data_value"
  /\ ~Declared(classes, objs[ret.self].cls, ret.arg.k)
  /\ objs[ret.self].cls = FooC
  /\ DictGet(objs[ret.self].values, S_up).t = "none"

\* whether integer v (below 2^31 in size) lies in the range of a signed or unsigned
\* integer of `bits` bits
InRange(v, bits, signed) ==
  IF signed THEN bits >= 32 \/ (0 - Pow2(bits - 1) <= v /\ v < Pow2(bits - 1))
  ELSE v >= 0 /\ (bits >= 32 \/ v < Pow2(bits))

\* a value of the kind C13 names for the member type t
BadValue(t, value) ==
  \/ t.k = "bool" /\ value.t \notin {"bool", "none"}
  \/ t.k = "bytes" /\ t.n >= 1 /\ value.t = "bytes" /\ Len(value.v) > t.n
  \/ t.k \in {"int", "uint"} /\ value.t = "int" /\ ~InRange(value.v, t.n, t.k = "int")

\* C13: encode_value of a Boolean given a non-boolean, of a Bytes(N) given more than
\* N bytes and of an Int or Uint given an integer outside its range fails with
\* ValueError, and building an instance that holds such a value does not fail
C13_ValueErrorsAtEncode ==
  /\ (ret.op = "type_encode" /\ BadValue(ret.arg.typ, ret.arg.value))
       => ret.e = "ValueError"
  /\ (ret.op = "construct" /\ objs[ret.self].cls = ZedC
        /\ BadValue(Bytes(2), DictGet(objs[ret.self].values, S_b)))
       => ret.e = ""

\* whether the 32 bytes bs are the big-endian two's complement of v, |v| <= 2^24
IsTwosComplement(bs, v) ==
  /\ Len(bs) = 32
  /\ \A i \in 1..32 : bs[i].h = 0 /\ bs[i].b \in 0..255
  /\ \A i \in 1..28 : bs[i].b = (IF v < 0 THEN 255 ELSE 0)
  /\ (v < 0) = (bs[29].b >= 128)
  /\ (bs[29].b - (IF v < 0 THEN 256 ELSE 0)) * Pow2(24)
       + bs[30].b * 65536 + bs[31].b * 256 + bs[32].b = v

\* whether the recorded call ended as the result r
EndedAs(r) == ret.e = r.e /\ (r.e = "" => ret.out = r.v)

\* C15: Int(N).encode_value(v) succeeds exactly when -2^(N-1) <= v < 2^(N-1) and
\* Uint(N).encode_value(v) exactly when 0 <= v < 2^N, the result is the 32-byte
\* big-endian two's complement of v, Address encodes a number as Uint(160) does, and
\* None encodes as 0 does
C15_IntegerEncoding ==
  ret.op = "type_encode" =>
    /\ (ret.arg.typ.k \in {"int", "uint"} /\ ret.arg.value.t = "int") =>
         /\ (ret.e = "") = InRange(ret.arg.value.v, ret.arg.typ.n, ret.arg.typ.k = "int")
         /\ ret.e = "" => IsTwosComplement(ret.out, ret.arg.value.v)
    /\ (ret.arg.typ.k = "address" /\ ret.arg.value.t = "int") =>
         /\ EndedAs(encode_value(classes, objs, Uint(160), ret.arg.value))
         /\ (ret.e = "") = (ret.arg.value.v >= 0)
         /\ ret.e = "" => IsTwosComplement(ret.out, ret.arg.value.v)
    /\ (ret.arg.typ.k \in {"int", "uint", "address"} /\ ret.arg.value.t = "none") =>
         /\ EndedAs(encode_value(classes, objs, ret.arg.typ, IntV(0)))
         /\ ret.e = "" /\ IsTwosComplement(ret.out, 0)

\* Int(16).encode_value(-32768) succeeded
C15_Witness ==
  /\ ret.op = "type_encode"
  /\ ret.arg.typ = SInt(16)
  /\ ret.arg.value.t = "int"
  /\ ret.arg.value.v = 0 - 32768
  /\ ret.e = ""

RECURSIVE DigitsValue(_)
\* the number a string of decimal digits writes
DigitsValue(s) ==
  IF s = <<>> THEN 0 ELSE 10 * DigitsValue(Take(s, Len(s) - 1)) + (Ord(s[Len(s)]) - 48)

\* whether string s is `prefix` followed by the decimal writing of n
IsPrefixNumber(s, prefix, n) ==
  /\ Len(s) > Len(prefix)
  /\ Take(s, Len(prefix)) = prefix
  /\ \A i \in (Len(prefix) + 1)..Len(s) : IsDigit(s[i])
  /\ s[Len(prefix) + 1] # "0"
  /\ DigitsValue(Drop(s, Len(prefix))) = n

\* the type name prefix of each constructor
KindPrefix(kind) ==
  CASE kind = "bytes" -> <<"b", "y", "t", "e", "s">>
    [] kind = "int" -> <<"i", "n", "t">>
    [] kind = "uint" -> <<"u", "i", "n", "t">>

\* the domain fields in the order make_domain declares them
DomainFieldOrder == <<S_name, S_version, S_chainId, S_verifyingContract, S_salt>>

\* C14: Int and Uint take a bit width that is a multiple of 8 from 8 to 256 and
\* Bytes a length from 0 to 32, any other gives ValueError; the type built is named
\* intN, uintN, bytesN, or bytes for length 0; make_domain with nothing supplied gives
\* ValueError and otherwise declares exactly the supplied fields in the order name,
\* version, chainId, verifyingContract, salt
C14_DeclarationErrors ==
  /\ ret.op = "new_type" =>
       IF (ret.arg.kind = "bytes" /\ ret.arg.length \in 0..32)
            \/ (ret.arg.kind # "bytes" /\ \E k \in 1..32 : ret.arg.length = 8 * k)
       THEN /\ ret.e = ""
            /\ IF ret.arg.kind = "bytes" /\ ret.arg.length = 0
               THEN TypeName(classes, ret.out) = KindPrefix("bytes")
               ELSE IsPrefixNumber(TypeName(classes, ret.out), KindPrefix(ret.arg.kind),
                                   ret.arg.length)
       ELSE ret.e = "ValueError"
  /\ ret.op = "make_domain" =>
       IF \A i \in 1..Len(ret.arg.v) : ret.arg.v[i].v.t = "none"
       THEN ret.e = "ValueError"
       ELSE /\ ret.e = ""
            /\ MemberNames(classes, objs[ret.self].cls)
                 = SelectSeq(DomainFieldOrder,
                             LAMBDA n : \E i \in 1..Len(ret.arg.v) :
                                          ret.arg.v[i].k = n /\ ret.arg.v[i].v.t # "none")

\* make_domain built a domain from salt, chainId and name, passed in that order
C14_Witness ==
  /\ ret.op = "make_domain"
  /\ ret.e = ""
  /\ Len(ret.arg.v) = 3
  /\ ret.arg.v[1].k = S_salt
  /\ ret.arg.v[2].k = S_chainId
  /\ ret.arg.v[3].k = S_name
  /\ Len(get_members(classes, objs[ret.self].cls)) = 3

\* C17: instances that compare equal and can be hashed have equal hashes, also when
\* their equal encodings come from different stored values
C17_HashConsistentWithEquality ==
  (/\ ret.op = "eq" /\ ret.e = "" /\ ret.arg.t = "obj" /\ ret.out = TRUE
   /\ struct_hash(classes, objs, ret.self).e = ""
   /\ struct_hash(classes, objs, ret.arg.v).e = "")
    => struct_hash(classes, objs, ret.self).v = struct_hash(classes, objs, ret.arg.v).v

====
